---- MODULE Spec2Model ----
(***************************************************************************)
(* rdfind.py: find redundant files under a list of root directories and    *)
(* replace them with hard links.                                           *)
(*                                                                         *)
(* The model follows src/rdfind.py.  A path is the sequence of its         *)
(* characters, so that str.startswith, os.path.join and os.path.relpath    *)
(* are computed on characters as the program computes them.  The file      *)
(* system is a map from paths to inode numbers (0: no such file) and a map *)
(* from inode numbers to the inode's size, content and modification time;  *)
(* the inode of a symbolic link carries the path it points to.  All files  *)
(* live on one device, the directories are real directories and the roots  *)
(* are given as real paths, so os.path.realpath of line 154 is the         *)
(* identity.  A directory lists its entries in the fixed order of          *)
(* FileNames and SubdirNames.  Logging and the progress bar are left out.  *)
(***************************************************************************)
EXTENDS Integers, Sequences, FiniteSets, TLC

VARIABLES
    args,         \* the parsed command line (main, lines 135-144, 154)
    fs,           \* path -> inode number, 0 when the path does not exist
    inodes,       \* inode number -> [size, mid, body, mtime, target]
    pc,           \* position of main()
    items,        \* the scanned records (line 157)
    ri,           \* index of the next reducer (line 175)
    groups_list,  \* the groups of the current stage (lines 174, 185, 197)
    stdout,       \* the group lines printed (line 201)
    gi,           \* index of the group being merged (line 209)
    mi,           \* index of the member being relinked (line 226)
    origin,       \* origin of the group being merged (line 210)
    mtime_ns,     \* timestamp of the group being merged (line 217)
    run,          \* number of the current run of the program
    fs0,          \* fs when the current run started
    inodes0,      \* inodes when the current run started
    prevOut,      \* stdout of the previous run
    prevArgs,     \* args of the previous run
    ops,          \* file system operations performed by the current run
    opened,       \* paths the current run opened for reading
    calls,        \* pairs of records the current run handed to bytecmp
    origins,      \* origin chosen for each group merged so far in this run
    g_items,      \* group(): the items argument
    g_min,        \* group(): the min_size argument
    g_pos,        \* group(): index of the next item of the loop
    g_st,         \* group(): items_by_key, groups_list and the two counters
    g_ret         \* group(): the returned tuple, <<>> before the return

vars == <<args, fs, inodes, pc, items, ri, groups_list, stdout, gi, mi, origin,
          mtime_ns, run, fs0, inodes0, prevOut, prevArgs, ops, opened, calls,
          origins, g_items, g_min, g_pos, g_st, g_ret>>

mainVars == <<args, fs, inodes, pc, items, ri, groups_list, stdout, gi, mi, origin,
              mtime_ns, run, fs0, inodes0, prevOut, prevArgs, ops, opened, calls,
              origins>>

groupVars == <<g_items, g_min, g_pos, g_st, g_ret>>

----------------------------------------------------------------------------
(* Bounds of the model *)

\* number of runs of the program on the same tree
MaxRuns == 2

\* length of the item list handed to group() on its own
MaxLen == 4

\* modification times are 1..MaxTime
MaxTime == 2

----------------------------------------------------------------------------
(* Program constants *)

SMART_LIMIT == 1024

----------------------------------------------------------------------------
(* Sequences *)

RECURSIVE Concat(_)
Concat(ss) == IF ss = <<>> THEN <<>> ELSE Head(ss) \o Concat(Tail(ss))

Range(s) == {s[i] : i \in 1..Len(s)}

RECURSIVE Sum(_)
Sum(s) == IF s = <<>> THEN 0 ELSE Head(s) + Sum(Tail(s))

Max(S) == CHOOSE x \in S : \A y \in S : y <= x

----------------------------------------------------------------------------
(* Paths *)

dA   == <<"/", "A">>
dAA  == <<"/", "A", "/", "A">>
dAAA == <<"/", "A", "/", "A", "/", "A">>
dAB  == <<"/", "A", "B">>
dC   == <<"/", "C">>

Dirs == {dA, dAA, dAAA, dAB, dC}

\* listing order of the files and of the subdirectories of a directory
FileNames == <<"f", "g">>
SubdirNames == <<"A">>

\* os.path.join(parent, name)
join(parent, name) == parent \o <<"/">> \o name

Files == {join(d, <<n>>) : d \in Dirs, n \in Range(FileNames)}

\* str.startswith
startswith(s, p) == Len(p) <= Len(s) /\ SubSeq(s, 1, Len(p)) = p

\* os.path.relpath(parent, path) for a directory parent met by os.walk(path)
os_relpath(parent, path) ==
    IF parent = path THEN <<".">> ELSE SubSeq(parent, Len(path) + 2, Len(parent))

\* the file lies in the tree of the directory: what os.walk(dir) can reach
Under(dir, file) == startswith(file, dir \o <<"/">>)

----------------------------------------------------------------------------
(* File system *)

\* the path names a directory entry: os.remove and os.link look at the entry
Exists(f, p) == p \in DOMAIN f /\ f[p] # 0

\* the entry is a symbolic link
islink(f, nd, p) == Exists(f, p) /\ nd[f[p]].target # <<>>

\* the path of the regular file that os.stat, open and os.utime reach from a
\* path, <<>> when a link of the chain dangles or the chain is a loop
RECURSIVE follow(_, _, _, _)
follow(f, nd, p, seen) ==
    IF ~Exists(f, p) \/ p \in seen THEN <<>>
    ELSE IF nd[f[p]].target = <<>> THEN p
    ELSE follow(f, nd, nd[f[p]].target, seen \cup {p})

\* os.path.realpath(path) of line 163: the links are resolved as far as they go
RECURSIVE realpath(_, _, _, _)
realpath(f, nd, p, seen) ==
    IF islink(f, nd, p) /\ p \notin seen
    THEN realpath(f, nd, nd[f[p]].target, seen \cup {p})
    ELSE p

\* os.stat(path) raises an OSError
StatRaises(path) == follow(fs, inodes, path, {}) = <<>>

\* byte content of an inode: its length, the 4 bytes read at length // 2, the rest
Bytes(nd) == <<nd.size, nd.mid, nd.body>>

\* os.stat(path)
os_stat(path) ==
    LET ino == fs[follow(fs, inodes, path, {})]
    IN  [st_dev |-> 1, st_ino |-> ino, st_size |-> inodes[ino].size,
         st_mtime_ns |-> inodes[ino].mtime]

\* get_info(path), with the relpath key of line 168 (<<>> when it is not set)
get_info(path, rel) == [path |-> path, relpath |-> rel, stat |-> os_stat(path)]

\* the value None
None == [path |-> <<>>, relpath |-> <<>>,
         stat |-> [st_dev |-> 0, st_ino |-> 0, st_size |-> 0, st_mtime_ns |-> 0]]

----------------------------------------------------------------------------
(* Scanner: main, lines 157-169 *)

\* one directory of os.walk: the names of its files, in listing order
listfiles(parent) == SelectSeq(FileNames, LAMBDA n : Exists(fs, join(parent, <<n>>)))

\* the subdirectories os.walk descends into, in listing order
subdirs(parent) ==
    LET all == [i \in 1..Len(SubdirNames) |-> join(parent, <<SubdirNames[i]>>)]
    IN  SelectSeq(all, LAMBDA d : d \in Dirs)

\* os.walk(path): the (parent, name) of every file, top-down
RECURSIVE os_walk(_)
os_walk(parent) ==
    LET names == listfiles(parent)
        subs  == subdirs(parent)
    IN  [i \in 1..Len(names) |-> <<parent, names[i]>>]
        \o Concat([i \in 1..Len(subs) |-> os_walk(subs[i])])

\* a filter that lets a size equal to min_size through
InSizeRangeLoose(st_size) == args.min_size <= st_size /\ st_size < args.max_size

\* line 165: args.min_size < info['stat'].st_size < args.max_size
InSizeRange(st_size) == args.min_size < st_size /\ st_size < args.max_size

\* lines 161-163: the path recorded for a file of a directory
file_path(parent, name) ==
    IF args.normalize THEN realpath(fs, inodes, join(parent, <<name>>), {})
    ELSE join(parent, <<name>>)

\* line 164: os.stat raises for one of the files met
ScanRaises ==
    \E r \in 1..Len(args.paths) :
        LET found == os_walk(args.paths[r])
        IN  \E i \in 1..Len(found) : StatRaises(file_path(found[i][1], found[i][2]))

\* lines 159-169 for one root
ScanRoot(path) ==
    LET found == os_walk(path)
        infos == [i \in 1..Len(found) |->
                    get_info(file_path(found[i][1], found[i][2]),
                             IF args.groupby_relative
                             THEN join(os_relpath(found[i][1], path), <<found[i][2]>>)
                             ELSE <<>>)]
    IN  SelectSeq(infos, LAMBDA info : InSizeRange(info.stat.st_size))

\* lines 157-169
ScanAll == Concat([i \in 1..Len(args.paths) |-> ScanRoot(args.paths[i])])

----------------------------------------------------------------------------
(* Key functions and the comparison: lines 18-51 *)

\* the inode behind a path, as open(path) reads it
Inode(path) == inodes[fs[follow(fs, inodes, path, {})]]

\* relpath(info)
relpath(info) == info.relpath

\* fileid(info)
fileid(info) == <<info.stat.st_dev, info.stat.st_ino>>

\* size(info)
size(info) == <<info.stat.st_size>>

\* md5(info): a digest of all the bytes of the file.  Two contents may share a
\* digest; here the contents whose mid and body have the same sum modulo 2 do.
md5(info) == <<"md5", (Inode(info.path).mid + Inode(info.path).body) % 2>>

\* fasthash(info): the 4 bytes at size // 2
fasthash(info) == <<"fast", Inode(info.path).mid>>

\* smarthash(info)
smarthash(info) == IF info.stat.st_size < SMART_LIMIT THEN md5(info) ELSE fasthash(info)

\* filecmp.cmp(path1, path2, shallow=False)
filecmp(path1, path2) == Bytes(Inode(path1)) = Bytes(Inode(path2))

\* bytecmp without the comparison of the contents
bytecmpNoRead(info1, info2) == info1.stat.st_size = info2.stat.st_size

\* bytecmp(info1, info2)
bytecmp(info1, info2) ==
    IF info1.stat.st_size # info2.stat.st_size THEN FALSE
    ELSE IF fileid(info1) = fileid(info2) THEN TRUE
    ELSE filecmp(info1.path, info2.path)

\* bytecmp reaches filecmp.cmp, which opens both files
ReadsFiles(info1, info2) ==
    info1.stat.st_size = info2.stat.st_size /\ fileid(info1) # fileid(info2)

\* a reducer applied to a record: the functions main puts in reducers, and fileid
KeyOf(reducer, info) ==
    CASE reducer = "relpath"   -> relpath(info)
      [] reducer = "size"      -> size(info)
      [] reducer = "md5"       -> md5(info)
      [] reducer = "smarthash" -> smarthash(info)
      [] reducer = "fileid"    -> fileid(info)

----------------------------------------------------------------------------
(* group: lines 53-74 *)

\* lines 54-57.  items_by_key is the dict in insertion order; groups_list holds
\* references to its lists, as indices into items_by_key
GroupInit == [items_by_key |-> <<>>, groups_list |-> <<>>,
              items_count |-> 0, grouped_count |-> 0]

\* index of the key in items_by_key, 0 when it is not in
KeyIndex(by, key) ==
    IF \E i \in 1..Len(by) : by[i].key = key
    THEN CHOOSE i \in 1..Len(by) : by[i].key = key
    ELSE 0

\* a loop body that appends the list again for every later item
GroupStepReappend(st, item, key, min_size) ==
    LET found == KeyIndex(st.items_by_key, key)
        by    == IF found = 0
                 THEN Append(st.items_by_key, [key |-> key, list |-> <<>>])
                 ELSE st.items_by_key
        k     == IF found = 0 THEN Len(by) ELSE found
        n     == Len(by[k].list)
    IN  [items_by_key  |-> [by EXCEPT ![k].list = Append(@, item)],
         groups_list   |-> IF n >= min_size THEN Append(st.groups_list, k)
                           ELSE st.groups_list,
         items_count   |-> st.items_count + 1,
         grouped_count |-> st.grouped_count + (IF n = min_size THEN min_size ELSE 0)
                                            + (IF n >= min_size THEN 1 ELSE 0)]

\* a loop body that puts the item at the front of its list
GroupStepPrepend(st, item, key, min_size) ==
    LET found == KeyIndex(st.items_by_key, key)
        by    == IF found = 0
                 THEN Append(st.items_by_key, [key |-> key, list |-> <<>>])
                 ELSE st.items_by_key
        k     == IF found = 0 THEN Len(by) ELSE found
        n     == Len(by[k].list)
    IN  [items_by_key  |-> [by EXCEPT ![k].list = <<item>> \o @],
         groups_list   |-> IF n = min_size THEN Append(st.groups_list, k)
                           ELSE st.groups_list,
         items_count   |-> st.items_count + 1,
         grouped_count |-> st.grouped_count + (IF n = min_size THEN min_size ELSE 0)
                                            + (IF n >= min_size THEN 1 ELSE 0)]

\* lines 59-73, one pass of the loop, key being reducer(item)
GroupStep(st, item, key, min_size) ==
    LET found == KeyIndex(st.items_by_key, key)
        by    == IF found = 0
                 THEN Append(st.items_by_key, [key |-> key, list |-> <<>>])
                 ELSE st.items_by_key
        k     == IF found = 0 THEN Len(by) ELSE found
        n     == Len(by[k].list)
    IN  [items_by_key  |-> [by EXCEPT ![k].list = Append(@, item)],
         groups_list   |-> IF n = min_size THEN Append(st.groups_list, k)
                           ELSE st.groups_list,
         items_count   |-> st.items_count + 1,
         grouped_count |-> st.grouped_count + (IF n = min_size THEN min_size ELSE 0)
                                            + (IF n >= min_size THEN 1 ELSE 0)]

\* a return of the lists groups_list refers to in the order of items_by_key
GroupReturnByKey(st) ==
    LET ks == SelectSeq([i \in 1..Len(st.items_by_key) |-> i],
                        LAMBDA i : i \in Range(st.groups_list))
    IN  <<st.items_count, st.grouped_count,
          [i \in 1..Len(ks) |-> st.items_by_key[ks[i]].list]>>

\* line 74: the lists groups_list refers to, as they are at the return
GroupReturn(st) ==
    <<st.items_count, st.grouped_count,
      [i \in 1..Len(st.groups_list) |-> st.items_by_key[st.groups_list[i]].list]>>

RECURSIVE GroupLoop(_, _, _, _)
GroupLoop(st, its, reducer, min_size) ==
    IF its = <<>> THEN st
    ELSE GroupLoop(GroupStep(st, Head(its), KeyOf(reducer, Head(its)), min_size),
                   Tail(its), reducer, min_size)

\* group(items, reducer, min_size)
group(its, reducer, min_size) == GroupReturn(GroupLoop(GroupInit, its, reducer, min_size))

----------------------------------------------------------------------------
(* selector: lines 76-99 *)

\* lines 77-80; calls lists the pairs handed to the comperator
SelectorInit == [buckets |-> <<>>, groups_list |-> <<>>,
                 items_count |-> 0, grouped_count |-> 0, calls |-> <<>>]

\* lines 86-96: the first bucket whose first member compares equal, 0 when none
FirstMatch(buckets, item) ==
    IF \E i \in 1..Len(buckets) : bytecmp(item, buckets[i][1])
    THEN CHOOSE i \in 1..Len(buckets) :
            /\ bytecmp(item, buckets[i][1])
            /\ \A j \in 1..(i - 1) : ~bytecmp(item, buckets[j][1])
    ELSE 0

\* lines 82-98, one pass of the outer loop
SelectorStep(st, item, min_size) ==
    LET k     == FirstMatch(st.buckets, item)
        tried == IF k = 0 THEN Len(st.buckets) ELSE k
        n     == IF k = 0 THEN 0 ELSE Len(st.buckets[k])
    IN  [buckets       |-> IF k = 0 THEN Append(st.buckets, <<item>>)
                           ELSE [st.buckets EXCEPT ![k] = Append(@, item)],
         groups_list   |-> IF k # 0 /\ n = min_size THEN Append(st.groups_list, k)
                           ELSE st.groups_list,
         items_count   |-> st.items_count + 1,
         grouped_count |-> st.grouped_count
                           + (IF k # 0 /\ n = min_size THEN min_size ELSE 0)
                           + (IF k # 0 /\ n >= min_size THEN 1 ELSE 0),
         calls         |-> st.calls \o [j \in 1..tried |-> <<item, st.buckets[j][1]>>]]

RECURSIVE SelectorLoop(_, _, _)
SelectorLoop(st, its, min_size) ==
    IF its = <<>> THEN st
    ELSE SelectorLoop(SelectorStep(st, Head(its), min_size), Tail(its), min_size)

\* selector(items, bytecmp, min_size): the returned tuple, and the calls made
selector(its, min_size) ==
    LET st == SelectorLoop(SelectorInit, its, min_size)
    IN  [ret   |-> <<st.items_count, st.grouped_count,
                     [i \in 1..Len(st.groups_list) |-> st.buckets[st.groups_list[i]]]>>,
         calls |-> st.calls]

\* by_first_parent(infos, parents)
by_first_parent(infos, parents) ==
    LET hit(p) == {i \in 1..Len(infos) : startswith(infos[i].path, parents[p])}
        ps     == {p \in 1..Len(parents) : hit(p) # {}}
    IN  IF ps = {} THEN None
        ELSE LET p == CHOOSE q \in ps : \A r \in ps : q <= r
                 i == CHOOSE j \in hit(p) : \A l \in hit(p) : j <= l
             IN  infos[i]

----------------------------------------------------------------------------
(* main: lines 148-232 *)

\* lines 148-152
reducers ==
    (IF args.groupby_relative THEN <<"relpath">> ELSE <<>>)
    \o <<"size", IF args.smarthash THEN "smarthash" ELSE "md5">>

\* the key function opens the file
ReadsFile(reducer) == reducer \in {"md5", "smarthash"}

\* line 201: '"' + '" "'.join(i['path'] for i in g) + '"'
Line(g) ==
    <<"\"">>
    \o Concat([i \in 1..Len(g) |->
                 (IF i = 1 THEN <<>> ELSE <<"\"", " ", "\"">>) \o g[i].path])
    \o <<"\"">>

\* an origin taken from the last of the largest sub-groups
MaxLinksLast(g) ==
    LET subs == group(g, "fileid", 0)[3]
        best == CHOOSE i \in 1..Len(subs) :
                    /\ \A j \in 1..Len(subs) : Len(subs[j]) <= Len(subs[i])
                    /\ \A j \in (i + 1)..Len(subs) : Len(subs[j]) < Len(subs[i])
    IN  subs[best][1]

\* lines 212-213: max(grouped_by_fileid[-1], key=lambda g: len(g))[0]
MaxLinks(g) ==
    LET subs == group(g, "fileid", 0)[3]
        best == CHOOSE i \in 1..Len(subs) :
                    /\ \A j \in 1..Len(subs) : Len(subs[j]) <= Len(subs[i])
                    /\ \A j \in 1..(i - 1) : Len(subs[j]) < Len(subs[i])
    IN  subs[best][1]

\* lines 210-215
SelectOrigin(g) ==
    CASE args.merge = "max"   -> MaxLinks(g)
      [] args.merge = "order" -> by_first_parent(g, args.paths)

\* a timestamp that --mtime order takes from the origin
SelectMtimeOfOrigin(g, org) ==
    CASE args.mtime = "merge" -> <<org.stat.st_mtime_ns>>
      [] args.mtime = "order" -> <<org.stat.st_mtime_ns>>
      [] args.mtime = "max"   -> <<Max({g[i].stat.st_mtime_ns : i \in 1..Len(g)})>>
      [] OTHER                -> <<>>

\* lines 217-223: <<t>> for the timestamp t, <<>> for None
SelectMtime(g, org) ==
    CASE args.mtime = "merge" -> <<org.stat.st_mtime_ns>>
      [] args.mtime = "order" -> <<by_first_parent(g, args.paths).stat.st_mtime_ns>>
      [] args.mtime = "max"   -> <<Max({g[i].stat.st_mtime_ns : i \in 1..Len(g)})>>
      [] OTHER                -> <<>>

\* lines 219, 221: the record subscripted is None, a TypeError
SelectMtimeRaises(g, org) ==
    \/ args.mtime = "merge" /\ org = None
    \/ args.mtime = "order" /\ by_first_parent(g, args.paths) = None

\* the per-run variables as they are when main starts
Fresh ==
    /\ pc = "scan"
    /\ items = <<>>
    /\ ri = 1
    /\ groups_list = <<>>
    /\ stdout = <<>>
    /\ gi = 1
    /\ mi = 1
    /\ origin = None
    /\ mtime_ns = <<>>
    /\ ops = <<>>
    /\ opened = {}
    /\ calls = <<>>
    /\ origins = <<>>

\* lines 157-174.  An OSError of os.stat ends the program
Scan ==
    /\ pc = "scan"
    /\ IF ScanRaises
       THEN /\ pc' = "error"
            /\ UNCHANGED <<items, groups_list>>
       ELSE /\ items' = ScanAll
            /\ groups_list' = <<ScanAll>>
            /\ pc' = "reduce"
    /\ ri' = 1
    /\ UNCHANGED <<args, fs, inodes, stdout, gi, mi, origin, mtime_ns, run, fs0,
                   inodes0, prevOut, prevArgs, ops, opened, calls, origins>>
    /\ UNCHANGED groupVars

\* a pass of the loop that calls group() with min_size=0
ReduceKeepSingles ==
    /\ pc = "reduce"
    /\ ri <= Len(reducers)
    /\ groups_list' =
          Concat([i \in 1..Len(groups_list) |-> group(groups_list[i], reducers[ri], 0)[3]])
    /\ opened' = IF ReadsFile(reducers[ri])
                 THEN opened \cup {x.path : x \in UNION {Range(g) : g \in Range(groups_list)}}
                 ELSE opened
    /\ ri' = ri + 1
    /\ pc' = IF ri = Len(reducers) THEN "select" ELSE "reduce"
    /\ UNCHANGED <<args, fs, inodes, items, stdout, gi, mi, origin, mtime_ns, run, fs0,
                   inodes0, prevOut, prevArgs, ops, calls, origins>>
    /\ UNCHANGED groupVars

\* lines 175-186, one pass of the loop over the reducers
Reduce ==
    /\ pc = "reduce"
    /\ ri <= Len(reducers)
    /\ groups_list' =
          Concat([i \in 1..Len(groups_list) |-> group(groups_list[i], reducers[ri], 1)[3]])
    /\ opened' = IF ReadsFile(reducers[ri])
                 THEN opened \cup {x.path : x \in UNION {Range(g) : g \in Range(groups_list)}}
                 ELSE opened
    /\ ri' = ri + 1
    /\ pc' = IF ri = Len(reducers) THEN "select" ELSE "reduce"
    /\ UNCHANGED <<args, fs, inodes, items, stdout, gi, mi, origin, mtime_ns, run, fs0,
                   inodes0, prevOut, prevArgs, ops, calls, origins>>
    /\ UNCHANGED groupVars

\* lines 188-198
Select ==
    /\ pc = "select"
    /\ LET res == [i \in 1..Len(groups_list) |-> selector(groups_list[i], 2)]
           cs  == Concat([i \in 1..Len(res) |-> res[i].calls])
       IN  /\ groups_list' = Concat([i \in 1..Len(res) |-> res[i].ret[3]])
           /\ calls' = cs
           /\ opened' = opened \cup UNION {{cs[i][1].path, cs[i][2].path} :
                                     i \in {j \in 1..Len(cs) : ReadsFiles(cs[j][1], cs[j][2])}}
    /\ pc' = "print"
    /\ UNCHANGED <<args, fs, inodes, items, ri, stdout, gi, mi, origin, mtime_ns, run,
                   fs0, inodes0, prevOut, prevArgs, ops, origins>>
    /\ UNCHANGED groupVars

\* lines 200-207 without the test of args.dry_run
PrintGroupsNoDryRun ==
    /\ pc = "print"
    /\ stdout' = [i \in 1..Len(groups_list) |-> Line(groups_list[i])]
    /\ gi' = 1
    /\ pc' = "merge"
    /\ UNCHANGED <<args, fs, inodes, items, ri, groups_list, mi, origin, mtime_ns, run,
                   fs0, inodes0, prevOut, prevArgs, ops, opened, calls, origins>>
    /\ UNCHANGED groupVars

\* lines 200-207
PrintGroups ==
    /\ pc = "print"
    /\ stdout' = [i \in 1..Len(groups_list) |-> Line(groups_list[i])]
    /\ gi' = 1
    /\ pc' = IF args.dry_run THEN "done" ELSE "merge"
    /\ UNCHANGED <<args, fs, inodes, items, ri, groups_list, mi, origin, mtime_ns, run,
                   fs0, inodes0, prevOut, prevArgs, ops, opened, calls, origins>>
    /\ UNCHANGED groupVars

\* lines 209-223 without the os.utime of line 224
BeginGroupNoUtime ==
    /\ pc = "merge"
    /\ gi <= Len(groups_list)
    /\ LET g      == groups_list[gi]
           org    == SelectOrigin(g)
           raises == SelectMtimeRaises(g, org)
           t      == IF raises THEN <<>> ELSE SelectMtime(g, org)
           ok     == org # None /\ ~raises /\ t # <<>> /\ ~StatRaises(org.path)
       IN  /\ origin' = org
           /\ mtime_ns' = t
           /\ origins' = Append(origins, org)
           /\ pc' = IF ok THEN "member" ELSE "error"
    /\ mi' = 1
    /\ UNCHANGED <<args, fs, inodes, items, ri, groups_list, stdout, gi, run, fs0, inodes0,
                   prevOut, prevArgs, ops, opened, calls>>
    /\ UNCHANGED groupVars

\* lines 209-224: the origin, the timestamp and os.utime for the next group.
\* Subscripting None raises a TypeError (lines 219, 221, 224), os.utime raises
\* a TypeError for ns=(None, None) and an OSError for a path that leads to no
\* file; os.utime follows symbolic links
BeginGroup ==
    /\ pc = "merge"
    /\ gi <= Len(groups_list)
    /\ LET g      == groups_list[gi]
           org    == SelectOrigin(g)
           raises == SelectMtimeRaises(g, org)
           t      == IF raises THEN <<>> ELSE SelectMtime(g, org)
           ok     == org # None /\ ~raises /\ t # <<>> /\ ~StatRaises(org.path)
       IN  /\ origin' = org
           /\ mtime_ns' = t
           /\ origins' = Append(origins, org)
           /\ pc' = IF ok THEN "member" ELSE "error"
           /\ inodes' = IF ok
                         THEN [inodes EXCEPT
                                 ![fs[follow(fs, inodes, org.path, {})]].mtime = t[1]]
                         ELSE inodes
           /\ ops' = IF ok THEN Append(ops, <<"utime", org.path>>) ELSE ops
    /\ mi' = 1
    /\ UNCHANGED <<args, fs, items, ri, groups_list, stdout, gi, run, fs0, inodes0,
                   prevOut, prevArgs, opened, calls>>
    /\ UNCHANGED groupVars

\* lines 226-228: the member is the origin's path
Continue ==
    /\ pc = "member"
    /\ mi <= Len(groups_list[gi])
    /\ groups_list[gi][mi].path = origin.path
    /\ mi' = mi + 1
    /\ UNCHANGED <<args, fs, inodes, pc, items, ri, groups_list, stdout, gi, origin,
                   mtime_ns, run, fs0, inodes0, prevOut, prevArgs, ops, opened, calls,
                   origins>>
    /\ UNCHANGED groupVars

\* line 229: os.remove(info['path'])
Remove ==
    /\ pc = "member"
    /\ mi <= Len(groups_list[gi])
    /\ groups_list[gi][mi].path # origin.path
    /\ LET path == groups_list[gi][mi].path
       IN  IF Exists(fs, path)
           THEN /\ fs' = [fs EXCEPT ![path] = 0]
                /\ ops' = Append(ops, <<"remove", path>>)
                /\ pc' = "link"
           ELSE /\ pc' = "error"
                /\ UNCHANGED <<fs, ops>>
    /\ UNCHANGED <<args, inodes, items, ri, groups_list, stdout, gi, mi, origin,
                   mtime_ns, run, fs0, inodes0, prevOut, prevArgs, opened, calls,
                   origins>>
    /\ UNCHANGED groupVars

\* line 230: os.link(origin['path'], info['path']).  When the source is a
\* symbolic link the new entry names the link itself (link(2) of Linux) or the
\* file the link leads to (follow_symlinks=True as documented), by platform
Link ==
    /\ pc = "link"
    /\ \E deref \in (IF islink(fs, inodes, origin.path) THEN BOOLEAN ELSE {FALSE}) :
          LET path == groups_list[gi][mi].path
              src  == IF deref THEN follow(fs, inodes, origin.path, {}) ELSE origin.path
          IN  IF Exists(fs, src) /\ ~Exists(fs, path)
              THEN /\ fs' = [fs EXCEPT ![path] = fs[src]]
                   /\ ops' = Append(ops, <<"link", origin.path, path>>)
                   /\ mi' = mi + 1
                   /\ pc' = "member"
              ELSE /\ pc' = "error"
                   /\ UNCHANGED <<fs, ops, mi>>
    /\ UNCHANGED <<args, inodes, items, ri, groups_list, stdout, gi, origin, mtime_ns,
                   run, fs0, inodes0, prevOut, prevArgs, opened, calls, origins>>
    /\ UNCHANGED groupVars

\* line 226: the loop over the members of the group ends
EndGroup ==
    /\ pc = "member"
    /\ mi > Len(groups_list[gi])
    /\ gi' = gi + 1
    /\ pc' = "merge"
    /\ UNCHANGED <<args, fs, inodes, items, ri, groups_list, stdout, mi, origin,
                   mtime_ns, run, fs0, inodes0, prevOut, prevArgs, ops, opened, calls,
                   origins>>
    /\ UNCHANGED groupVars

\* lines 209, 232: the loop over the groups ends
EndMerge ==
    /\ pc = "merge"
    /\ gi > Len(groups_list)
    /\ pc' = "done"
    /\ UNCHANGED <<args, fs, inodes, items, ri, groups_list, stdout, gi, mi, origin,
                   mtime_ns, run, fs0, inodes0, prevOut, prevArgs, ops, opened, calls,
                   origins>>
    /\ UNCHANGED groupVars

\* the program is started again on the tree the run left, with the same roots
\* and options but for --dry-run
Rerun ==
    /\ pc = "done"
    /\ run < MaxRuns
    /\ run' = run + 1
    /\ \E d \in BOOLEAN : args' = [args EXCEPT !.dry_run = d]
    /\ prevArgs' = args
    /\ prevOut' = stdout
    /\ fs0' = fs
    /\ inodes0' = inodes
    /\ pc' = "scan"
    /\ items' = <<>>
    /\ ri' = 1
    /\ groups_list' = <<>>
    /\ stdout' = <<>>
    /\ gi' = 1
    /\ mi' = 1
    /\ origin' = None
    /\ mtime_ns' = <<>>
    /\ ops' = <<>>
    /\ opened' = {}
    /\ calls' = <<>>
    /\ origins' = <<>>
    /\ UNCHANGED <<fs, inodes>>
    /\ UNCHANGED groupVars

----------------------------------------------------------------------------
(* group() on its own: the loop of lines 58-73, one item per step *)

\* the keys of the items handed to group() on its own
GroupKeys == {100, 200, 300}

\* the item at a position of the list: a record whose size is the key
GroupItem(i, k) ==
    [path |-> <<>>, relpath |-> <<>>,
     stat |-> [st_dev |-> 1, st_ino |-> i, st_size |-> k, st_mtime_ns |-> 1]]

\* group() is not running
GroupIdle ==
    /\ g_items = <<>>
    /\ g_min = 0
    /\ g_pos = 1
    /\ g_st = GroupInit
    /\ g_ret = <<>>

\* lines 58-73: one pass of the loop of group(g_items, size, g_min)
GroupIter ==
    /\ pc = "group"
    /\ g_ret = <<>>
    /\ g_pos <= Len(g_items)
    /\ g_st' = GroupStep(g_st, g_items[g_pos], KeyOf("size", g_items[g_pos]), g_min)
    /\ g_pos' = g_pos + 1
    /\ UNCHANGED <<g_items, g_min, g_ret>>
    /\ UNCHANGED mainVars

\* line 74
GroupEnd ==
    /\ pc = "group"
    /\ g_ret = <<>>
    /\ g_pos > Len(g_items)
    /\ g_ret' = GroupReturn(g_st)
    /\ UNCHANGED <<g_items, g_min, g_pos, g_st>>
    /\ UNCHANGED mainVars

----------------------------------------------------------------------------
(* Initial states *)

\* the inodes a tree may hold
Nodes(sizes, contents, mtimes) ==
    {[size |-> s, mid |-> c[1], body |-> c[2], mtime |-> t, target |-> <<>>] :
        s \in sizes, c \in contents, t \in mtimes}

\* the inode of a symbolic link to the path
Symlink(target) ==
    [size |-> Len(target), mid |-> 0, body |-> 0, mtime |-> 1, target |-> target]

\* the tree that holds the files paths[i], the i-th being a link to inode shape[i]
MkFs(paths, shape) ==
    [p \in Files |->
        IF \E i \in 1..Len(paths) : paths[i] = p
        THEN shape[CHOOSE i \in 1..Len(paths) : paths[i] = p]
        ELSE 0]

\* the trees over the given files; an inode no path names equals the first one
Trees(paths, shapes, nodes) ==
    UNION {{[fs |-> MkFs(paths, sh), inodes |-> nd] :
               nd \in {n \in [1..Len(paths) -> nodes] :
                         \A k \in 1..Len(paths) : k \notin Range(sh) => n[k] = n[sh[1]]}} :
           sh \in shapes}

\* the trees over the given files where the i-th is a symbolic link to
\* targets[i] unless targets[i] is <<>>; each file has an inode of its own
LinkTrees(paths, targets, nodes) ==
    {[fs     |-> MkFs(paths, [i \in 1..Len(paths) |-> i]),
      inodes |-> [k \in 1..Len(paths) |->
                     IF targets[k] = <<>> THEN n[k] ELSE Symlink(targets[k])]] :
        n \in [1..Len(paths) -> nodes]}

\* main starts on the tree with the arguments
InitMain(argSet, trees) ==
    /\ args \in argSet
    /\ \E t \in trees : fs = t.fs /\ inodes = t.inodes /\ fs0 = t.fs /\ inodes0 = t.inodes
    /\ run = 1
    /\ prevOut = <<>>
    /\ prevArgs = args
    /\ Fresh
    /\ GroupIdle

\* hash collisions: three files of two sizes and three contents
InitDetect ==
    InitMain([paths : {<<dA, dC>>, <<dC, dA>>, <<dA, dC, dC>>},
              dry_run : BOOLEAN, normalize : {FALSE}, groupby_relative : {FALSE},
              min_size : {0, 4096}, max_size : {1000000},
              merge : {"max"}, mtime : {"order"}, smarthash : BOOLEAN],
             Trees(<<join(dA, <<"f">>), join(dA, <<"g">>), join(dC, <<"f">>)>>,
                   {<<1, 2, 3>>},
                   Nodes({100, 10000}, {<<0, 0>>, <<0, 1>>, <<1, 1>>}, {1})))

\* sizes at and around the bounds
InitSize ==
    InitMain([paths : {<<dA, dC, dC>>, <<dC, dC, dC>>},
              dry_run : BOOLEAN, normalize : {FALSE}, groupby_relative : {FALSE},
              min_size : {100, 4096}, max_size : {10000, 1000000},
              merge : {"order"}, mtime : {"order"}, smarthash : {FALSE}],
             Trees(<<join(dA, <<"f">>), join(dA, <<"g">>),
                     join(dC, <<"f">>), join(dC, <<"g">>)>>,
                   {<<1, 2, 3, 4>>},
                   Nodes({100, 4096, 10000}, {<<0, 0>>}, {1})))

\* modification times, with and without files that are hard links already
InitMtime ==
    InitMain([paths : {<<dA, dC>>, <<dC, dA>>},
              dry_run : BOOLEAN, normalize : {FALSE}, groupby_relative : {FALSE},
              min_size : {4096}, max_size : {1000000},
              merge : {"max", "order"}, mtime : {"order", "newest", "merge"},
              smarthash : {FALSE}],
             Trees(<<join(dA, <<"f">>), join(dC, <<"f">>), join(dC, <<"g">>)>>,
                   {<<1, 2, 3>>, <<1, 2, 2>>},
                   Nodes({10000}, {<<0, 0>>}, 1..MaxTime)))

\* the lists of roots: a root that is a prefix of another, nested and repeated roots
RootLists ==
    {<<dA, dC, dAB>>, <<dAB, dC, dA>>, <<dA, dAA, dAA>>, <<dAA, dA, dA>>, <<dC, dAB>>}

InitRoots ==
    \/ InitMain([paths : RootLists,
                 dry_run : BOOLEAN, normalize : {FALSE}, groupby_relative : BOOLEAN,
                 min_size : {4096}, max_size : {1000000},
                 merge : {"max", "order"}, mtime : {"order"}, smarthash : {FALSE}],
                Trees(<<join(dC, <<"f">>), join(dAB, <<"f">>), join(dAB, <<"g">>)>>,
                      {<<1, 2, 3>>},
                      Nodes({10000}, {<<0, 0>>, <<0, 1>>}, {1})))
    \/ InitMain([paths : RootLists,
                 dry_run : BOOLEAN, normalize : {FALSE}, groupby_relative : BOOLEAN,
                 min_size : {4096}, max_size : {1000000},
                 merge : {"max", "order"}, mtime : {"order"}, smarthash : {FALSE}],
                Trees(<<join(dA, <<"f">>), join(dAA, <<"f">>), join(dAAA, <<"f">>)>>,
                      {<<1, 2, 3>>},
                      Nodes({10000}, {<<0, 0>>, <<0, 1>>}, {1})))

\* a symbolic link in the first root to a file of the second, with and
\* without --normalize; the first root alone leaves the file outside the roots
InitLinks ==
    InitMain([paths : {<<dA, dA, dA>>, <<dA, dC, dC>>, <<dA, dC>>},
              dry_run : BOOLEAN, normalize : BOOLEAN, groupby_relative : {FALSE},
              min_size : {4096}, max_size : {1000000},
              merge : {"max", "order"}, mtime : {"order", "merge"},
              smarthash : {FALSE}],
             LinkTrees(<<join(dA, <<"f">>), join(dC, <<"f">>), join(dC, <<"g">>)>>,
                       <<join(dC, <<"f">>), <<>>, <<>>>>,
                       Nodes({10000}, {<<0, 0>>, <<0, 1>>}, 1..MaxTime)))

Init == InitDetect \/ InitSize \/ InitMtime \/ InitRoots \/ InitLinks

\* group(items, size, min_size) is called on a list of at most MaxLen items
InitGroup ==
    /\ \E n \in 1..MaxLen : \E ks \in [1..n -> GroupKeys] :
          g_items = [i \in 1..n |-> GroupItem(i, ks[i])]
    /\ g_min \in {0, 1, 2}
    /\ g_pos = 1
    /\ g_st = GroupInit
    /\ g_ret = <<>>
    /\ args = [paths |-> <<>>, dry_run |-> TRUE, normalize |-> FALSE,
               groupby_relative |-> FALSE,
               min_size |-> 4096, max_size |-> 1000000,
               merge |-> "max", mtime |-> "order", smarthash |-> FALSE]
    /\ prevArgs = args
    /\ fs = [p \in Files |-> 0]
    /\ fs0 = fs
    /\ inodes = <<>>
    /\ inodes0 = <<>>
    /\ run = 1
    /\ prevOut = <<>>
    /\ pc = "group"
    /\ items = <<>>
    /\ ri = 1
    /\ groups_list = <<>>
    /\ stdout = <<>>
    /\ gi = 1
    /\ mi = 1
    /\ origin = None
    /\ mtime_ns = <<>>
    /\ ops = <<>>
    /\ opened = {}
    /\ calls = <<>>
    /\ origins = <<>>

----------------------------------------------------------------------------
(* Specifications *)

Next ==
    \/ Scan
    \/ Reduce
    \/ Select
    \/ PrintGroups
    \/ BeginGroup
    \/ Continue
    \/ Remove
    \/ Link
    \/ EndGroup
    \/ EndMerge
    \/ Rerun

\* runs of rdfind.py
Spec == Init /\ [][Next]_vars

NextGroup == GroupIter \/ GroupEnd

\* group() called on its own
SpecGroup == InitGroup /\ [][NextGroup]_vars

----------------------------------------------------------------------------
(* Vocabulary of the properties *)

\* the selector has run: groups_list holds the confirmed duplicate groups
Detected == pc \in {"print", "merge", "member", "link", "done", "error"}

\* every group line has been written
Printed == pc \in {"merge", "member", "link", "done", "error"}

\* the bytes read through a path when the run started
Bytes0(p) == Bytes(inodes0[fs0[follow(fs0, inodes0, p, {})]])

\* the path is a member of the group
InGroup(g, p) == \E i \in 1..Len(g) : g[i].path = p

\* the path was recorded by the scan
Recorded(p) == \E i \in 1..Len(items) : items[i].path = p

\* the scan of the run went through: no os.stat of line 164 raised
ScanDone == pc # "scan" /\ ~(pc = "error" /\ ri = 1 /\ groups_list = <<>>)

\* the path led to a file when the run started, and the size of that file
Resolves0(p) == follow(fs0, inodes0, p, {}) # <<>>
Size0(p) == inodes0[fs0[follow(fs0, inodes0, p, {})]].size

\* the path the scan records for a file, as the tree was when the run started
RecordPath0(p) == IF args.normalize THEN realpath(fs0, inodes0, p, {}) ELSE p

\* the path lies under one of the roots
UnderRoots(p) == \E r \in 1..Len(args.paths) : Under(args.paths[r], p)

\* the content hash of the run
HashOf(info) == KeyOf(IF args.smarthash THEN "smarthash" ELSE "md5", info)

----------------------------------------------------------------------------
(* C1: completeness of detection *)

\* C1: without --groupby-relative, any two scanned files of equal size and
\* identical bytes (hence equal hash) are members of one confirmed group
C1_Complete ==
    (Detected /\ ~args.groupby_relative) =>
        \A i, j \in 1..Len(items) :
            ( /\ items[i].path # items[j].path
              /\ items[i].stat.st_size = items[j].stat.st_size
              /\ Bytes0(items[i].path) = Bytes0(items[j].path) )
            => \E k \in 1..Len(groups_list) :
                  /\ InGroup(groups_list[k], items[i].path)
                  /\ InGroup(groups_list[k], items[j].path)

----------------------------------------------------------------------------
(* C2: soundness of detection *)

\* C2: the members of a confirmed group are pairwise byte-identical, whatever
\* the order of the input and the hash function
C2_Sound ==
    Detected =>
        \A k \in 1..Len(groups_list) :
            \A i, j \in 1..Len(groups_list[k]) :
                Bytes0(groups_list[k][i].path) = Bytes0(groups_list[k][j].path)

\* a group was confirmed although a record with the size and the hash of its
\* members, and other bytes, went through the selector with them
C2_Witness ==
    /\ pc = "print"
    /\ \E k \in 1..Len(groups_list) : \E i \in 1..Len(items) :
          /\ items[i].stat.st_size = groups_list[k][1].stat.st_size
          /\ HashOf(items[i]) = HashOf(groups_list[k][1])
          /\ Bytes0(items[i].path) # Bytes0(groups_list[k][1].path)
          /\ ~InGroup(groups_list[k], items[i].path)

----------------------------------------------------------------------------
(* C3: one inode per group after the merge *)

\* C3: after a run without --dry-run that ends without error, every member of
\* every confirmed group names the inode of the group's origin
C3_SameInode ==
    (pc = "done" /\ ~args.dry_run) =>
        \A k \in 1..Len(groups_list) :
            \A i \in 1..Len(groups_list[k]) :
                /\ ~StatRaises(groups_list[k][i].path)
                /\ ~StatRaises(origins[k].path)
                /\ os_stat(groups_list[k][i].path).st_ino = os_stat(origins[k].path).st_ino

----------------------------------------------------------------------------
(* C4: the timestamp of --mtime merge and --mtime newest *)

\* C4: with --mtime merge or newest the timestamp selected for a group is
\* defined, and after the merge the origin carries the largest st_mtime_ns of
\* the members of its group
C4_NewestMtime ==
    (~args.dry_run /\ args.mtime \in {"merge", "newest"}) =>
        /\ (pc \in {"member", "link", "error"} /\ origins # <<>>) => mtime_ns # <<>>
        /\ pc = "done" =>
              \A k \in 1..Len(groups_list) :
                  /\ ~StatRaises(origins[k].path)
                  /\ os_stat(origins[k].path).st_mtime_ns =
                        Max({groups_list[k][i].stat.st_mtime_ns :
                               i \in 1..Len(groups_list[k])})

----------------------------------------------------------------------------
(* C5: idempotence *)

\* C5: a second run with the same roots and options on the tree a merge left
\* prints no group and performs no file system operation
C5_Idempotent ==
    (run > 1 /\ ~prevArgs.dry_run /\ args = prevArgs) =>
        /\ stdout = <<>>
        /\ ops = <<>>

----------------------------------------------------------------------------
(* C6: --dry-run *)

\* C6: a run with --dry-run changes nothing in the file system, and the run
\* that follows it on the same tree, with or without --dry-run, prints the
\* same group lines
C6_DryRun ==
    /\ args.dry_run => (fs = fs0 /\ inodes = inodes0 /\ ops = <<>>)
    /\ (run > 1 /\ prevArgs.dry_run /\ Printed) => stdout = prevOut

\* a run without --dry-run has printed the lines of the dry run before it and
\* has relinked a file
C6_Witness ==
    /\ run > 1
    /\ prevArgs.dry_run
    /\ ~args.dry_run
    /\ pc = "done"
    /\ stdout # <<>>
    /\ stdout = prevOut
    /\ fs # fs0

----------------------------------------------------------------------------
(* C7: the origin of --merge order *)

\* the first member, in group order, under the first root that holds a member
FirstUnderFirstRoot(g, parents) ==
    LET has(p) == {i \in 1..Len(g) : Under(parents[p], g[i].path)}
        ps     == {p \in 1..Len(parents) : has(p) # {}}
    IN  IF ps = {} THEN None
        ELSE LET p == CHOOSE q \in ps : \A r \in ps : q <= r
                 i == CHOOSE j \in has(p) : \A l \in has(p) : j <= l
             IN  g[i]

\* C7: with --merge order the origin of a group is its first member under the
\* earliest root that contains a member of the group
C7_OrderOrigin ==
    (args.merge = "order" /\ pc \in {"member", "link"}) =>
        origin = FirstUnderFirstRoot(groups_list[gi], args.paths)

----------------------------------------------------------------------------
(* C8: the size filter *)

\* C8: a file under a root is recorded exactly when min_size < size < max_size;
\* a path that is not recorded is never opened, is in no group and keeps its
\* directory entry, and a file whose size is not within the bounds is not
\* read through any path
C8_SizeFilter ==
    ScanDone =>
        \A p \in Files :
            /\ (Exists(fs0, p) /\ UnderRoots(p)) =>
                  (Recorded(RecordPath0(p)) <=> ( /\ args.min_size < Size0(p)
                                                  /\ Size0(p) < args.max_size ))
            /\ ~Recorded(p) =>
                  /\ p \notin opened
                  /\ \A k \in 1..Len(groups_list) : ~InGroup(groups_list[k], p)
                  /\ fs[p] = fs0[p]
            /\ (Resolves0(p) /\ ~(args.min_size < Size0(p) /\ Size0(p) < args.max_size)) =>
                  \A q \in opened :
                      follow(fs0, inodes0, q, {}) # follow(fs0, inodes0, p, {})

\* a merge ended that left out a file whose size is min_size and a file whose
\* size is max_size
C8_Witness ==
    /\ pc = "done"
    /\ ~args.dry_run
    /\ groups_list # <<>>
    /\ fs # fs0
    /\ \E p, q \in Files :
          /\ Resolves0(p) /\ UnderRoots(p) /\ Size0(p) = args.min_size
          /\ Resolves0(q) /\ UnderRoots(q) /\ Size0(q) = args.max_size
          /\ ~Recorded(p)
          /\ ~Recorded(q)

----------------------------------------------------------------------------
(* C9: --groupby-relative *)

\* the two paths were recorded at one relative position
SharePosition(p, q) ==
    \E i, j \in 1..Len(items) :
        /\ items[i].path = p
        /\ items[j].path = q
        /\ items[i].relpath = items[j].relpath

\* C9: with --groupby-relative the members of a confirmed group have one
\* relative path, and two files that the run made links of one inode were
\* recorded at one relative position
C9_SamePosition ==
    args.groupby_relative =>
        /\ Detected =>
              \A k \in 1..Len(groups_list) :
                  \A i, j \in 1..Len(groups_list[k]) :
                      groups_list[k][i].relpath = groups_list[k][j].relpath
        /\ pc = "done" =>
              \A p, q \in Files :
                  ( /\ Exists(fs0, p) /\ Exists(fs0, q) /\ fs0[p] # fs0[q]
                    /\ Exists(fs, p) /\ fs[p] = fs[q] )
                  => SharePosition(p, q)

----------------------------------------------------------------------------
(* C10: which lists group() returns *)

\* the lists of items_by_key that groups_list refers to
Emitted(st) == {st.groups_list[i] : i \in 1..Len(st.groups_list)}

\* the number of items in the lists groups_list refers to
EmittedMembers(st) ==
    Sum([i \in 1..Len(st.groups_list) |-> Len(st.items_by_key[st.groups_list[i]].list)])

\* C10 as stated: at every step the lists in groups_list are those that have
\* reached min_size items, none twice, and grouped_count counts their items
C10_EmitAtMinSize ==
    pc = "group" =>
        /\ Emitted(g_st) =
              {k \in 1..Len(g_st.items_by_key) : Len(g_st.items_by_key[k].list) >= g_min}
        /\ Cardinality(Emitted(g_st)) = Len(g_st.groups_list)
        /\ g_st.grouped_count = EmittedMembers(g_st)
        /\ g_ret # <<>> => g_ret = GroupReturn(g_st)

\* C10 as amended: at every step the lists in groups_list are those that hold
\* more than min_size items (a list is appended when its item number
\* min_size + 1 arrives), none twice, and grouped_count counts their items
C10_EmitAboveMinSize ==
    pc = "group" =>
        /\ Emitted(g_st) =
              {k \in 1..Len(g_st.items_by_key) : Len(g_st.items_by_key[k].list) > g_min}
        /\ Cardinality(Emitted(g_st)) = Len(g_st.groups_list)
        /\ g_st.grouped_count = EmittedMembers(g_st)
        /\ g_ret # <<>> =>
              /\ g_ret[2] = Sum([i \in 1..Len(g_ret[3]) |-> Len(g_ret[3][i])])
              /\ Range(g_ret[3]) =
                    {g_st.items_by_key[k].list : k \in
                        {j \in 1..Len(g_st.items_by_key) :
                            Len(g_st.items_by_key[j].list) > g_min}}

\* group(items, size, 1) has returned a list that grew after it was appended
\* and has dropped a list of one item
C10_Witness ==
    /\ pc = "group"
    /\ g_min = 1
    /\ g_ret # <<>>
    /\ \E i \in 1..Len(g_ret[3]) : Len(g_ret[3][i]) > 2
    /\ \E k \in 1..Len(g_st.items_by_key) : Len(g_st.items_by_key[k].list) = 1
    /\ g_ret[2] > 2

----------------------------------------------------------------------------
(* C11: a merge that is interrupted *)

\* the paths of the members of the confirmed groups
MemberPaths == UNION {{g[i].path : i \in 1..Len(g)} : g \in Range(groups_list)}

\* the path leads to a file that holds the bytes the path led to when the run
\* started
Intact(p) ==
    /\ ~StatRaises(p)
    /\ Bytes(Inode(p)) = Bytes0(p)

\* C11: wherever a merge stops, the origin path of every group merged or being
\* merged is intact, at most one member path of the whole tree is missing, and
\* every other member path is intact
C11_SafeMix ==
    (Printed /\ ScanDone /\ ~args.dry_run) =>
        /\ \A k \in 1..Len(origins) : origins[k] # None => Intact(origins[k].path)
        /\ Cardinality({p \in MemberPaths : ~Exists(fs, p)}) <= 1
        /\ \A p \in MemberPaths : Exists(fs, p) => Intact(p)

----------------------------------------------------------------------------
(* C12: no member of a group lies under a root *)

\* the order strategy finds no member of the group under any root
NoRootMatch(g) == by_first_parent(g, args.paths) = None

\* the file system operations of the run that name a member path of the group
GroupOps(g) == {i \in 1..Len(ops) : InGroup(g, ops[i][2])}

\* the run stopped at the group, before any operation on a path of the group
StoppedAt(k) ==
    /\ pc = "error"
    /\ k = Len(origins)
    /\ GroupOps(groups_list[k]) = {}

\* C12: when the order strategy is used for a group that has no member under
\* any root, the selection raises a fatal error: no missing value is handed
\* back as the origin, the run stops at that group and no utime, remove or
\* link is performed for it
C12_MissingOrigin ==
    \A k \in 1..Len(origins) :
        ( /\ NoRootMatch(groups_list[k])
          /\ (args.merge = "order" \/ args.mtime = "order") ) =>
            /\ args.merge = "order" => origins[k] # None
            /\ StoppedAt(k)

----------------------------------------------------------------------------
(* C13: the origin of --merge max *)

\* the number of members of the group that have the fileid of its i-th member
SameFileid(g, i) == Cardinality({j \in 1..Len(g) : fileid(g[j]) = fileid(g[i])})

\* the first member, in group order, whose fileid is that of the most members
MostLinked(g) ==
    LET top == {i \in 1..Len(g) : \A j \in 1..Len(g) : SameFileid(g, j) <= SameFileid(g, i)}
    IN  g[CHOOSE i \in top : \A j \in top : i <= j]

\* C13: with --merge max the origin of every group is the first member of the
\* fileid sub-group with the most members, the earliest such sub-group in group
\* order when several have the most, sub-groups of one member included
C13_MaxOrigin ==
    args.merge = "max" =>
        \A k \in 1..Len(origins) : origins[k] = MostLinked(groups_list[k])

\* --merge max chose an origin that is not the first member of its group, in a
\* group that also holds a fileid sub-group of one member
C13_Witness ==
    /\ args.merge = "max"
    /\ pc = "member"
    /\ origin # groups_list[gi][1]
    /\ \E i \in 1..Len(groups_list[gi]) : SameFileid(groups_list[gi], i) = 1

----------------------------------------------------------------------------
(* C14: the order of the operations on a group *)

\* the indices of the os.utime calls among the operations
Utimes(o) == {i \in 1..Len(o) : o[i][1] = "utime"}

\* the step performs an os.remove or an os.link
Relinks ==
    /\ Len(ops') = Len(ops) + 1
    /\ ops'[Len(ops')][1] \in {"remove", "link"}

\* C14: a remove or a link of a member of a group happens only when every
\* group line is written, the origin and the timestamp of the group are
\* selected and os.utime has been called on the origin, as the last os.utime
\* of the run; the origin and the timestamp do not change while the group is
\* relinked, and the first member is reached with the timestamp set
C14_Ordering ==
    [][ /\ Relinks =>
            /\ ~args.dry_run
            /\ Printed
            /\ Len(stdout) = Len(groups_list)
            /\ \A k \in 1..Len(groups_list) : stdout[k] = Line(groups_list[k])
            /\ InGroup(groups_list[gi], ops'[Len(ops')][Len(ops'[Len(ops')])])
            /\ origin # None
            /\ origin = origins[gi]
            /\ mtime_ns # <<>>
            /\ Cardinality(Utimes(ops)) = gi
            /\ ops[Max(Utimes(ops))] = <<"utime", origin.path>>
            /\ origin' = origin
        /\ (pc \in {"member", "link"} /\ pc' \in {"member", "link"}) =>
            /\ origin' = origin
            /\ mtime_ns' = mtime_ns
            /\ gi' = gi
        /\ (pc = "merge" /\ pc' = "member") =>
            /\ ops' = Append(ops, <<"utime", origin'.path>>)
            /\ inodes'[fs[follow(fs, inodes, origin'.path, {})]].mtime = mtime_ns'[1]
      ]_vars

\* the second group of a run is being relinked: a member of it has been
\* removed and linked to the origin
C14_Witness ==
    /\ pc = "member"
    /\ gi = 2
    /\ mi > 1
    /\ ops[Len(ops)] = <<"link", origin.path, groups_list[gi][mi - 1].path>>

----------------------------------------------------------------------------
(* C15: the timestamp of --mtime order *)

\* the member is the one root priority selects: its path starts with a root,
\* no member starts with an earlier root, and no earlier member starts with
\* that root
RootPriority(g, i, parents) ==
    \E p \in 1..Len(parents) :
        /\ startswith(g[i].path, parents[p])
        /\ \A q \in 1..(p - 1) : \A j \in 1..Len(g) : ~startswith(g[j].path, parents[q])
        /\ \A j \in 1..(i - 1) : ~startswith(g[j].path, parents[p])

\* C15: with --mtime order the timestamp of a group is the st_mtime_ns of the
\* member root priority selects, with --merge max as with --merge order, and
\* the origin carries it when the first member is reached
C15_OrderMtime ==
    (args.mtime = "order" /\ pc \in {"member", "link"}) =>
        /\ \E i \in 1..Len(groups_list[gi]) :
              /\ RootPriority(groups_list[gi], i, args.paths)
              /\ mtime_ns = <<groups_list[gi][i].stat.st_mtime_ns>>
        /\ (pc = "member" /\ mi = 1) => os_stat(origin.path).st_mtime_ns = mtime_ns[1]

\* --merge max took the origin from one member and --mtime order the
\* timestamp from another, whose st_mtime_ns is not that of the origin
C15_Witness ==
    /\ args.mtime = "order"
    /\ args.merge = "max"
    /\ pc = "member"
    /\ mi = 1
    /\ ~RootPriority(groups_list[gi], CHOOSE i \in 1..Len(groups_list[gi]) :
                                          groups_list[gi][i] = origin, args.paths)
    /\ origin.stat.st_mtime_ns # mtime_ns[1]
    /\ os_stat(origin.path).st_mtime_ns = mtime_ns[1]

----------------------------------------------------------------------------
(* C16: what is read *)

\* another scanned record has the size of the i-th, and with
\* --groupby-relative its relative path
HasPeer(i) ==
    \E j \in 1..Len(items) :
        /\ j # i
        /\ items[j].stat.st_size = items[i].stat.st_size
        /\ args.groupby_relative => items[j].relpath = items[i].relpath

\* C16: a path is opened only for a record that has a peer of its size (and
\* relative path), bytecmp is called only on two records of one size and one
\* hash, and the file of a record whose size no other record has is not read
\* through any path
C16_PruneBeforeRead ==
    ScanDone =>
        /\ \A p \in opened : \E i \in 1..Len(items) : items[i].path = p /\ HasPeer(i)
        /\ pc = "print" =>
              \A c \in 1..Len(calls) :
                  /\ calls[c][1].stat.st_size = calls[c][2].stat.st_size
                  /\ HashOf(calls[c][1]) = HashOf(calls[c][2])
                  /\ args.groupby_relative => calls[c][1].relpath = calls[c][2].relpath
        /\ \A i \in 1..Len(items) :
              (\A j \in 1..Len(items) :
                  j # i => items[j].stat.st_size # items[i].stat.st_size)
              => \A q \in opened :
                    follow(fs0, inodes0, q, {}) # follow(fs0, inodes0, items[i].path, {})

\* the selector has read two files to compare them, and a recorded file of a
\* size of its own was never opened
C16_Witness ==
    /\ pc = "print"
    /\ \E c \in 1..Len(calls) : ReadsFiles(calls[c][1], calls[c][2])
    /\ \E i \in 1..Len(items) :
          /\ \A j \in 1..Len(items) :
                j # i => items[j].stat.st_size # items[i].stat.st_size
          /\ items[i].path \notin opened

----------------------------------------------------------------------------
(* C17: the order of the members *)

\* g is a subsequence of s
RECURSIVE IsSubseq(_, _)
IsSubseq(g, s) ==
    IF g = <<>> THEN TRUE
    ELSE IF s = <<>> THEN FALSE
    ELSE IF Head(g) = Head(s) THEN IsSubseq(Tail(g), Tail(s))
    ELSE IsSubseq(g, Tail(s))

\* C17: at every stage every group is a subsequence of the scanned records,
\* and every printed line lists the paths of such a group in its order
C17_ScanOrder ==
    ScanDone =>
        /\ \A k \in 1..Len(groups_list) : IsSubseq(groups_list[k], items)
        /\ \A k \in 1..Len(stdout) :
              /\ k <= Len(groups_list)
              /\ stdout[k] = Line(groups_list[k])

\* a line is printed for a group that begins with the first scanned record
\* and leaves out the second
C17_Witness ==
    /\ Printed
    /\ Len(items) >= 4
    /\ \E k \in 1..Len(stdout) :
          /\ stdout[k] = Line(groups_list[k])
          /\ groups_list[k][1] = items[1]
          /\ ~InGroup(groups_list[k], items[2].path)
          /\ \E i \in 2..Len(groups_list[k]) : groups_list[k][i] # items[1]

----------------------------------------------------------------------------
(* C18: the order of the lists group() returns *)

\* C18 as stated: the lists are returned in the order in which their keys
\* are first seen (st_ino of a record is its position in the input)
C18_FirstSeenOrder ==
    (pc = "group" /\ g_ret # <<>>) =>
        \A a, b \in 1..Len(g_ret[3]) :
            a < b => g_ret[3][a][1].stat.st_ino < g_ret[3][b][1].stat.st_ino

\* C18 as amended: the lists are returned in the order in which they come to
\* hold more than min_size items, the order of their items number min_size + 1
C18_EmissionOrder ==
    (pc = "group" /\ g_ret # <<>>) =>
        \A a, b \in 1..Len(g_ret[3]) :
            a < b => g_ret[3][a][g_min + 1].stat.st_ino < g_ret[3][b][g_min + 1].stat.st_ino

\* group(items, size, 1) has returned two lists, the first of a key that was
\* first seen after the key of the second
C18_Witness ==
    /\ pc = "group"
    /\ g_min = 1
    /\ g_ret # <<>>
    /\ Len(g_ret[3]) = 2
    /\ g_ret[3][1][1].stat.st_ino > g_ret[3][2][1].stat.st_ino

====
